---- MODULE Spec2Model ----
(***************************************************************************)
(* Model of the scraping engine of server.js: one run of                   *)
(* scrapeTweetsForQuery(query, maxTweets, cookieArray) against a page      *)
(* whose answers (evaluation results, extracted articles, scroll heights,  *)
(* thrown errors) are chosen nondeterministically, and the response the    *)
(* POST /scrape handler sends for it.                                      *)
(*                                                                         *)
(* pc names the statement the run is about to execute; every action is the *)
(* code between two suspension points (await) of the async function.       *)
(*                                                                         *)
(* Four further specifications look at parts of the program on their own:  *)
(* ExtractorSpec at one call of extractTweetsFromPage, article by article; *)
(* LikesSpec at the like count of one article; ConcurrentSpec at two       *)
(* requests whose runs interleave; HandlerSpec at POST /scrape from the    *)
(* request body to the call of the run.                                    *)
(***************************************************************************)
EXTENDS Integers, Sequences, FiniteSets

(* ------------------------------ bounds -------------------------------- *)

\* largest maxTweets a request asks for
MaxTweetsBound == 2

\* most articles one document snapshot holds
MaxArticles == 2

\* largest document.body.scrollHeight the page reports
MaxHeight == 1

\* longest label (aria-label, innerText) of a like control, in characters
MaxLabelLen == 3

\* longest string a request body gives for filter, query or an item count
MaxBodyLen == 2

(* ------------------------ program constants --------------------------- *)

\* const MAX_SCROLL_ATTEMPTS = parseInt(process.env.MAX_SCROLL_ATTEMPTS || '12', 10)
MAX_SCROLL_ATTEMPTS == 12

(* ------------------------------ values -------------------------------- *)

\* JavaScript null, for string-valued fields
Null == "null"

\* href of the status anchor of an article (Null: the article has none)
StatusHrefs == {"/a/status/1", "/b/status/2"}

\* 'https://twitter.com' + statusAnchor.getAttribute('href')
Permalink(href) ==
    CASE href = "/a/status/1" -> "https://twitter.com/a/status/1"
      [] href = "/b/status/2" -> "https://twitter.com/b/status/2"
      [] OTHER -> ""

Links == {Permalink(h) : h \in StatusHrefs}

\* raw timestamps of a <time> element: its datetime attribute or its text
RawTimestamps == {Null, "yesterday", "1969-12-31T23:59:59Z", "1970-01-01T00:00:01Z"}

\* new Date(raw): [valid |-> FALSE] is the Invalid Date, ms the time value
DateOf(raw) ==
    CASE raw = "1969-12-31T23:59:59Z" -> [valid |-> TRUE, ms |-> -1000]
      [] raw = "1970-01-01T00:00:01Z" -> [valid |-> TRUE, ms |-> 1000]
      [] raw = "1969-12-31T23:59:59.000Z" -> [valid |-> TRUE, ms |-> -1000]
      [] raw = "1970-01-01T00:00:01.000Z" -> [valid |-> TRUE, ms |-> 1000]
      [] OTHER -> [valid |-> FALSE, ms |-> 0]

\* Date.prototype.toISOString of a valid date
ToISOString(d) ==
    CASE d.ms = -1000 -> "1969-12-31T23:59:59.000Z"
      [] d.ms = 1000 -> "1970-01-01T00:00:01.000Z"
      [] OTHER -> "1970-01-01T00:00:00.000Z"

\* article elements of a document, reduced to what the run reads of them:
\* text is tweetText.innerText.trim() ('' when the element is missing),
\* href the status anchor's href (Null: no anchor), datetime the raw timestamp
Articles ==
    [text : {"", "hello"}, href : StatusHrefs \cup {Null}, datetime : RawTimestamps]

\* the cookie arrays handed to a run: null, [] and an array of one cookie
CookieArrays ==
    {[isNull |-> TRUE, length |-> 0],
     [isNull |-> FALSE, length |-> 0],
     [isNull |-> FALSE, length |-> 1]}

\* !cookieArray || cookieArray.length === 0
NoCookies(c) == c.isNull \/ c.length = 0

Heights == 0..MaxHeight

RECURSIVE SeqsUpTo(_, _)
\* all sequences over S of length at most n
SeqsUpTo(S, n) ==
    IF n = 0 THEN {<<>>}
    ELSE LET shorter == SeqsUpTo(S, n - 1)
         IN  shorter \cup {Append(s, x) : s \in {t \in shorter : Len(t) = n - 1}, x \in S}

(* --------------------------- page extractor --------------------------- *)

\* the record one article yields (lines 132-137, 214-216)
ItemOf(article) ==
    [text |-> article.text,
     link |-> IF article.href = Null THEN "" ELSE Permalink(article.href),
     timestamp |-> article.datetime]

RECURSIVE extractTweetsFromPage(_)
\* articles.forEach: push the article's record if (text && link)
extractTweetsFromPage(articles) ==
    IF articles = <<>> THEN <<>>
    ELSE LET t == ItemOf(Head(articles))
             rest == extractTweetsFromPage(Tail(articles))
         IN  IF t.text # "" /\ t.link # "" THEN <<t>> \o rest ELSE rest

\* the document snapshots a page can show: the articles in document order
Documents == SeqsUpTo(Articles, MaxArticles)

\* what extractTweetsFromPage can resolve to, over every document
ExtractionResults == {extractTweetsFromPage(d) : d \in Documents}

(* ----------------------------- like count ------------------------------ *)
\* Labels are sequences of characters.

\* the characters of a label: two digits, the comma, and one other character
LabelChars == {"0", "1", ",", "L"}

Digits == {"0", "1"}

DigitValue(ch) == IF ch = "1" THEN 1 ELSE 0

Labels == SeqsUpTo(LabelChars, MaxLabelLen)

\* article.querySelector('[data-testid="like"]'): no such element, or one
\* with an aria-label (<<>>: none, or empty) and an innerText
LikeControls ==
    {[present |-> FALSE, ariaLabel |-> <<>>, innerText |-> <<>>]}
        \cup [present : {TRUE}, ariaLabel : Labels, innerText : Labels]

\* a JavaScript number that is an integer, and NaN
Number(n) == [isNaN |-> FALSE, value |-> n]
NaN == [isNaN |-> TRUE, value |-> 0]

\* likeBtn.getAttribute('aria-label') || likeBtn.innerText || ''
LabelOf(likeBtn) ==
    IF likeBtn.ariaLabel # <<>> THEN likeBtn.ariaLabel ELSE likeBtn.innerText

\* aria.match(/[\d,]+/): the leftmost longest run of digits and commas;
\* found is FALSE when match returns null
FirstMatch(aria) ==
    LET inRun(i) == aria[i] \in Digits \cup {","}
        starts == {i \in 1..Len(aria) : inRun(i)}
    IN  IF starts = {} THEN [found |-> FALSE, text |-> <<>>]
        ELSE LET s == CHOOSE i \in starts : \A j \in starts : i <= j
                 ends == {j \in s..Len(aria) : \A k \in s..j : inRun(k)}
                 e == CHOOSE j \in ends : \A k \in ends : k <= j
             IN  [found |-> TRUE, text |-> SubSeq(aria, s, e)]

NotComma(ch) == ch # ","

\* m[0].replace(/,/g, '')
StripCommas(text) == SelectSeq(text, NotComma)

RECURSIVE DecimalValue(_)
\* the value of a string of decimal digits
DecimalValue(digits) ==
    IF digits = <<>> THEN 0
    ELSE 10 * DecimalValue(SubSeq(digits, 1, Len(digits) - 1))
             + DigitValue(digits[Len(digits)])

\* parseInt(text, 10): the value of the leading digits, NaN if there are none
ParseInt(text) ==
    LET lead == {n \in 0..Len(text) : \A k \in 1..n : text[k] \in Digits}
        n == CHOOSE m \in lead : \A k \in lead : k <= m
    IN  IF n = 0 THEN NaN ELSE Number(DecimalValue(SubSeq(text, 1, n)))

\* lines 205-211: let likes = 0; if (likeBtn) { ...; if (m) likes = parseInt(...) }
Likes(likeBtn) ==
    IF ~likeBtn.present THEN Number(0)
    ELSE LET m == FirstMatch(LabelOf(likeBtn))
         IN  IF m.found THEN ParseInt(StripCommas(m.text)) ELSE Number(0)

(* --------------------- page extractor, per article --------------------- *)
\* The callback of articles.forEach on the elements themselves. Articles
\* above are these articles after lines 132-137 and 214-216 have read them.

\* the value of a property an element does not have
Undefined == "undefined"

\* the tweetText element of an article: none (Null), one without innerText
\* (Undefined: not an HTMLElement), or one with this innerText
TweetTexts == {Null, Undefined, "  ", " hello "}

\* String.prototype.trim
Trim(s) ==
    CASE s = "  " -> ""
      [] s = " hello " -> "hello"
      [] OTHER -> s

\* the like controls of the articles of a document
ArticleLikeControls ==
    {[present |-> FALSE, ariaLabel |-> <<>>, innerText |-> <<>>],
     [present |-> TRUE, ariaLabel |-> <<"1">>, innerText |-> <<>>]}

\* article elements: the tweetText element, the status anchor's href, the
\* like control, the raw timestamp
ArticleElements ==
    [tweetText : TweetTexts, href : StatusHrefs \cup {Null},
     likeBtn : ArticleLikeControls, datetime : {Null, "1970-01-01T00:00:01Z"}]

\* a mutant of ForEachArticle: the record is pushed if (text || link)
ForEachArticleEither(out, article) ==
    IF article.tweetText = Undefined THEN out
    ELSE LET text == IF article.tweetText = Null THEN "" ELSE Trim(article.tweetText)
             link == IF article.href = Null THEN "" ELSE Permalink(article.href)
         IN  IF text # "" \/ link # ""
             THEN Append(out, [text |-> text, link |-> link,
                               likes |-> Likes(article.likeBtn),
                               timestamp |-> article.datetime])
             ELSE out

\* a mutant of ForEachArticle: the catch empties out
ForEachArticleDiscarding(out, article) ==
    IF article.tweetText = Undefined THEN <<>>
    ELSE LET text == IF article.tweetText = Null THEN "" ELSE Trim(article.tweetText)
             link == IF article.href = Null THEN "" ELSE Permalink(article.href)
         IN  IF text # "" /\ link # ""
             THEN Append(out, [text |-> text, link |-> link,
                               likes |-> Likes(article.likeBtn),
                               timestamp |-> article.datetime])
             ELSE out

\* lines 129-232, the callback for one article: textEl.innerText.trim()
\* throws a TypeError when innerText is undefined, which the catch of line
\* 229 swallows; otherwise if (text && link) out.push({...})
ForEachArticle(out, article) ==
    IF article.tweetText = Undefined THEN out
    ELSE LET text == IF article.tweetText = Null THEN "" ELSE Trim(article.tweetText)
             link == IF article.href = Null THEN "" ELSE Permalink(article.href)
         IN  IF text # "" /\ link # ""
             THEN Append(out, [text |-> text, link |-> link,
                               likes |-> Likes(article.likeBtn),
                               timestamp |-> article.datetime])
             ELSE out

(* ------------------------------- merge -------------------------------- *)
\* A Map is modelled as the sequence of its values in insertion order; the
\* key of a value is its link.

MapHas(map, key) == \E i \in 1..Len(map) : map[i].link = key

\* Map.prototype.set: an existing key keeps its position and takes the value
MapSet(map, t) ==
    IF MapHas(map, t.link)
    THEN [i \in 1..Len(map) |-> IF map[i].link = t.link THEN t ELSE map[i]]
    ELSE Append(map, t)

RECURSIVE MapFrom(_)
\* new Map(tweets.map(t => [t.link, t]))
MapFrom(entries) ==
    IF entries = <<>> THEN <<>>
    ELSE MapSet(MapFrom(SubSeq(entries, 1, Len(entries) - 1)), entries[Len(entries)])

\* a mutant of MergeOne: the has() test is dropped, the last occurrence wins
MergeOneLastWins(map, t) ==
    IF t.link # "" THEN MapSet(map, t) ELSE map

\* if (t.link && !map.has(t.link)) map.set(t.link, t)
MergeOne(map, t) ==
    IF t.link # "" /\ ~MapHas(map, t.link) THEN MapSet(map, t) ELSE map

RECURSIVE MergeAll(_, _)
\* newTweets.forEach(...) over the map
MergeAll(map, newTweets) ==
    IF newTweets = <<>> THEN map
    ELSE MergeAll(MergeOne(map, Head(newTweets)), Tail(newTweets))

\* a mutant of Merge: the batch is appended without the Map
MergeConcat(tw, newTweets) == tw \o newTweets

\* lines 352-356: tweets = Array.from(map.values())
Merge(tw, newTweets) == MergeAll(MapFrom(tw), newTweets)

(* --------------------------- post-processing -------------------------- *)

\* lines 386-392: t.timestamp ? new Date(t.timestamp).toISOString() : null,
\* and null when toISOString throws on an Invalid Date
TimestampIso(t) ==
    IF t.timestamp = Null \/ t.timestamp = "" THEN Null
    ELSE IF DateOf(t.timestamp).valid THEN ToISOString(DateOf(t.timestamp))
    ELSE Null

\* tweets.forEach(t => { t.timestamp_iso = ... })
Normalize(tw) ==
    [i \in 1..Len(tw) |->
        [text |-> tw[i].text, link |-> tw[i].link, timestamp |-> tw[i].timestamp,
         timestamp_iso |-> TimestampIso(tw[i])]]

\* a.timestamp_iso ? new Date(a.timestamp_iso).getTime() : 0
SortKey(t) ==
    IF t.timestamp_iso # Null THEN DateOf(t.timestamp_iso).ms ELSE 0

\* the comparator of tweets.sort: tb - ta
Compare(a, b) == SortKey(b) - SortKey(a)

\* x put after the last element that the comparator does not order after it
InsertSorted(sorted, x) ==
    LET keep == {i \in 1..Len(sorted) : Compare(sorted[i], x) <= 0}
        k == Cardinality(keep)
    IN  SubSeq(sorted, 1, k) \o <<x>> \o SubSeq(sorted, k + 1, Len(sorted))

RECURSIVE SortTweets(_)
\* Array.prototype.sort with the comparator (stable)
SortTweets(tw) ==
    IF tw = <<>> THEN <<>>
    ELSE InsertSorted(SortTweets(SubSeq(tw, 1, Len(tw) - 1)), tw[Len(tw)])

\* Array.prototype.slice(0, n)
Slice0(s, n) ==
    IF n >= 0 THEN SubSeq(s, 1, IF n < Len(s) THEN n ELSE Len(s))
    ELSE SubSeq(s, 1, IF Len(s) + n > 0 THEN Len(s) + n ELSE 0)

\* a mutant of PostProcess: the list is cut before it is sorted
PostProcessSliceFirst(tw, n) == SortTweets(Normalize(Slice0(tw, n)))

\* lines 386-399: normalize, sort, slice(0, maxTweets)
PostProcess(tw, n) == Slice0(SortTweets(Normalize(tw)), n)

(* ------------------------------- state -------------------------------- *)

VARIABLES
    pc,                 \* the statement of scrapeTweetsForQuery about to run
    cookieArray,        \* argument: the cookies of the run
    maxTweets,          \* argument: the maximum item count
    launched,           \* launchBrowser has returned a browser
    closeCalls,         \* number of calls of browser.close
    loggedIn,           \* const loggedIn (line 286), Unset before it is assigned
    blockedImmediately, \* const blockedImmediately (line 327)
    maybeBlocked,       \* const maybeBlocked (line 374)
    tweets,             \* let tweets (line 345)
    scrollAttempts,     \* let scrollAttempts (line 346)
    lastHeight,         \* let lastHeight (line 347)
    result,             \* the array the run returns
    outcome,            \* "running", "returned", or the code of the error thrown
    searchNavigated,    \* history: page.goto(url) of line 322 was issued
    blockChecks,        \* history: number of isBlockedOrLoginPage calls
    extractionRan,      \* history: extractTweetsFromPage was called
    firstSeen,          \* history: per permalink, the first item discovered
    prevMeasured,       \* history: the height the previous iteration measured
    stagnantRun,        \* history: latest consecutive iterations with unchanged height
    loopExit,           \* history: how the while loop was left
    duplicateSeen,      \* history: a pass brought a permalink again, with other content
    rejected,           \* history: the caught rejection of the step just taken, or "none"
    debugFiles,         \* history: how the try block of lines 299-306 ended
    response,           \* POST /scrape: the response sent for the run
    extraction,         \* one call of extractTweetsFromPage: the articles visited, out
    likeParse,          \* the like count of one article: the control and let likes
    concurrent,         \* two requests in flight: their arguments, calls and locals
    handler             \* POST /scrape up to the call of the run: body, locals, position

vars ==
    <<pc, cookieArray, maxTweets, launched, closeCalls, loggedIn, blockedImmediately,
      maybeBlocked, tweets, scrollAttempts, lastHeight, result, outcome,
      searchNavigated, blockChecks, extractionRan, firstSeen, prevMeasured,
      stagnantRun, loopExit, duplicateSeen, rejected, debugFiles, response,
      extraction, likeParse, concurrent, handler>>

Unset == "unset"

\* a JavaScript boolean held in a variable that starts Unset
JsBool(b) == IF b THEN "true" ELSE "false"

\* no item discovered yet for a permalink
NoItem == [text |-> "", link |-> "", timestamp |-> Null]

args == <<cookieArray, maxTweets>>
session == <<launched, closeCalls>>
checks == <<loggedIn, blockedImmediately, maybeBlocked>>
loopVars == <<tweets, scrollAttempts, lastHeight>>
history == <<searchNavigated, blockChecks, extractionRan, firstSeen, prevMeasured,
             stagnantRun, loopExit, duplicateSeen>>

\* what a step of the run leaves alone unless it says otherwise
elsewhere == <<extraction, likeParse, concurrent, handler>>

\* the variables of the one run modelled statement by statement
oneRun == <<pc, args, session, checks, loopVars, result, outcome, history, rejected,
            debugFiles, response>>
bystanders == <<debugFiles, response, elsewhere>>

\* no response sent yet
NoResponse == [status |-> 0, ok |-> FALSE, error |-> ""]

\* no extractor call and no like count under way
NoExtraction == [document |-> <<>>, out |-> <<>>, returned |-> FALSE]
\* a value of the request body: a missing key, a number, a string
Missing == [kind |-> "missing", n |-> 0, s |-> <<>>]
Num(n) == [kind |-> "number", n |-> n, s |-> <<>>]
Str(s) == [kind |-> "string", n |-> 0, s |-> s]

\* no request received
NoHandler ==
    [body |-> [filter |-> Missing, query |-> Missing, max_tweets_per_run |-> Missing,
               max_tweets |-> Missing],
     stage |-> "idle", filter |-> <<>>, maxTweets |-> Number(1), status |-> 0,
     cookiesLoaded |-> FALSE, called |-> FALSE, handed |-> Number(1)]
NoRequests == [requests |-> <<>>, calls |-> <<>>, frames |-> <<>>, interleaved |-> FALSE]
NoLikeParse ==
    [likeBtn |-> [present |-> FALSE, ariaLabel |-> <<>>, innerText |-> <<>>],
     likes |-> Number(0), parsed |-> FALSE]

\* scrapeTweetsForQuery(query, n, c) is called and stands at statement at
RunStart(at, c, n) ==
    /\ pc = at
    /\ cookieArray = c
    /\ maxTweets = n
    /\ launched = FALSE
    /\ closeCalls = 0
    /\ loggedIn = Unset
    /\ blockedImmediately = Unset
    /\ maybeBlocked = Unset
    /\ tweets = <<>>
    /\ scrollAttempts = 0
    /\ lastHeight = 0
    /\ result = <<>>
    /\ outcome = "running"
    /\ searchNavigated = FALSE
    /\ blockChecks = 0
    /\ extractionRan = FALSE
    /\ firstSeen = [l \in Links |-> NoItem]
    /\ prevMeasured = 0
    /\ stagnantRun = 0
    /\ loopExit = "none"
    /\ duplicateSeen = FALSE
    /\ rejected = "none"
    /\ debugFiles = "none"
    /\ response = NoResponse

\* a run is called with a cookie array and an item count; no statement has
\* run yet
Init ==
    /\ \E c \in CookieArrays, n \in 1..MaxTweetsBound : RunStart("launchBrowser", c, n)
    /\ extraction = NoExtraction
    /\ likeParse = NoLikeParse
    /\ concurrent = NoRequests
    /\ handler = NoHandler

(* --------------------------- exits of the run ------------------------- *)

\* an awaited operation rejects and nothing catches it: the error leaves
\* scrapeTweetsForQuery as it is, without a code
Throws ==
    /\ pc' = "done"
    /\ outcome' = "Error"
    /\ UNCHANGED <<result, closeCalls>>

\* await browser.close(); err.code = 'LOGIN_REQUIRED'; throw err
ThrowLoginRequired ==
    /\ closeCalls' = closeCalls + 1
    /\ pc' = "done"
    /\ outcome' = "LOGIN_REQUIRED"
    /\ UNCHANGED result

\* a mutant of BlockFatal: a blocked page is fatal with cookies too
BlockFatalAlways(blocked, c) == blocked

\* blocked && (!cookieArray || cookieArray.length === 0)
BlockFatal(blocked, c) == blocked /\ NoCookies(c)

(* --------------------- scrapeTweetsForQuery: set-up ------------------- *)

\* line 241: const browser = await launchBrowser()
LaunchBrowser ==
    /\ pc = "launchBrowser"
    /\ \/ /\ launched' = TRUE
          /\ pc' = "pageSetup"
          /\ UNCHANGED <<outcome, result, closeCalls>>
       \/ /\ Throws
          /\ UNCHANGED launched
    /\ UNCHANGED <<args, checks, loopVars, history>>
    /\ rejected' = "none"
    /\ UNCHANGED bystanders

\* lines 242-251: newPage, setViewport, setExtraHTTPHeaders, setUserAgent
PageSetup ==
    /\ pc = "pageSetup"
    /\ \/ /\ pc' = IF ~cookieArray.isNull /\ cookieArray.length > 0
                   THEN "setCookie" ELSE "gotoHome"
          /\ UNCHANGED <<outcome, result, closeCalls>>
       \/ Throws
    /\ UNCHANGED <<args, launched, checks, loopVars, history>>
    /\ rejected' = "none"
    /\ UNCHANGED bystanders

\* lines 254-273: page.setCookie(...normalized) inside try/catch; the page may
\* reject it, which is logged
SetCookie ==
    /\ pc = "setCookie"
    /\ pc' = "gotoHome"
    /\ UNCHANGED <<args, session, checks, loopVars, result, outcome, history>>
    /\ rejected' = "none"
    /\ UNCHANGED bystanders

\* a mutant of GotoHome: the goto is awaited outside of any try/catch
GotoHomeUncaught ==
    /\ pc = "gotoHome"
    /\ \/ /\ rejected' = "none"
          /\ pc' = "waitForTimeout"
          /\ UNCHANGED <<outcome, result, closeCalls>>
       \/ /\ rejected' = "goto home"
          /\ Throws
    /\ UNCHANGED <<args, launched, checks, loopVars, history, bystanders>>

\* lines 276-280: page.goto('https://twitter.com/') inside try/catch: a
\* rejection or timeout is logged
GotoHome ==
    /\ pc = "gotoHome"
    /\ rejected' \in {"none", "goto home"}
    /\ pc' = "waitForTimeout"
    /\ UNCHANGED <<args, session, checks, loopVars, result, outcome, history, bystanders>>

\* line 283: await page.waitForTimeout(1500), outside of the try/catch
WaitForTimeout ==
    /\ pc = "waitForTimeout"
    /\ \/ /\ pc' = "evaluateLoggedIn"
          /\ UNCHANGED <<outcome, result, closeCalls>>
       \/ Throws
    /\ rejected' = "none"
    /\ UNCHANGED <<args, launched, checks, loopVars, history, bystanders>>

\* lines 286-297: const loggedIn = await page.evaluate(...); if (!loggedIn)
EvaluateLoggedIn ==
    /\ pc = "evaluateLoggedIn"
    /\ \/ \E v \in BOOLEAN :
            /\ loggedIn' = JsBool(v)
            /\ pc' = IF ~v THEN "debugFiles" ELSE "gotoSearch"
            /\ UNCHANGED <<outcome, result, closeCalls>>
       \/ /\ Throws
          /\ UNCHANGED loggedIn
    /\ UNCHANGED <<args, launched, blockedImmediately, maybeBlocked, loopVars, history>>
    /\ rejected' = "none"
    /\ UNCHANGED bystanders

\* how the try block of lines 299-306 can end: both files written, or the
\* first of page.screenshot, page.content, fs.writeFileSync that throws
DebugFilesEndings == {"saved", "screenshot failed", "content failed", "write failed"}

\* a mutant of DebugFiles: the three calls stand outside of any try/catch
DebugFilesUncaught ==
    /\ pc = "debugFiles"
    /\ \E ending \in DebugFilesEndings :
         /\ debugFiles' = ending
         /\ IF ending = "saved"
            THEN /\ pc' = "loginNotDetected"
                 /\ UNCHANGED <<outcome, result, closeCalls>>
            ELSE Throws
    /\ rejected' = "none"
    /\ UNCHANGED <<args, launched, checks, loopVars, history, response, elsewhere>>

\* lines 298-306: page.screenshot, then page.content and fs.writeFileSync,
\* inside try/catch: a failure of any of them is logged
DebugFiles ==
    /\ pc = "debugFiles"
    /\ debugFiles' \in DebugFilesEndings
    /\ pc' = "loginNotDetected"
    /\ rejected' = "none"
    /\ UNCHANGED <<args, session, checks, loopVars, result, outcome, history, response,
                   elsewhere>>

\* a mutant of LoginNotDetected: the error is thrown without its code
LoginNotDetectedNoCode ==
    /\ pc = "loginNotDetected"
    /\ closeCalls' = closeCalls + 1
    /\ pc' = "done"
    /\ outcome' = "Error"
    /\ rejected' = "none"
    /\ UNCHANGED <<args, launched, checks, loopVars, result, history, bystanders>>

\* lines 308-313: await browser.close(); err.code = 'LOGIN_REQUIRED'; throw err
LoginNotDetected ==
    /\ pc = "loginNotDetected"
    /\ ThrowLoginRequired
    /\ rejected' = "none"
    /\ UNCHANGED <<args, launched, checks, loopVars, history, bystanders>>

\* lines 319-324: page.goto(url).catch(...): a rejection is logged
GotoSearch ==
    /\ pc = "gotoSearch"
    /\ searchNavigated' = TRUE
    /\ rejected' \in {"none", "goto search"}
    /\ pc' = "checkBlocked"
    /\ UNCHANGED bystanders
    /\ UNCHANGED <<args, session, checks, loopVars, result, outcome, blockChecks,
                   extractionRan, firstSeen, prevMeasured, stagnantRun, loopExit,
                   duplicateSeen>>

\* a mutant of CheckBlocked: the fatal branch closes the browser and falls
\* through instead of throwing
CheckBlockedFallsThrough ==
    /\ pc = "checkBlocked"
    /\ blockChecks' = blockChecks + 1
    /\ \/ \E b \in BOOLEAN :
            /\ blockedImmediately' = JsBool(b)
            /\ closeCalls' = IF BlockFatal(b, cookieArray) THEN closeCalls + 1 ELSE closeCalls
            /\ pc' = "waitForSelector"
            /\ UNCHANGED <<outcome, result>>
       \/ /\ Throws
          /\ UNCHANGED blockedImmediately
    /\ UNCHANGED <<args, launched, loggedIn, maybeBlocked, loopVars, searchNavigated,
                   extractionRan, firstSeen, prevMeasured, stagnantRun, loopExit,
                   duplicateSeen>>
    /\ rejected' = "none"
    /\ UNCHANGED bystanders

\* lines 327-335: const blockedImmediately = await isBlockedOrLoginPage(page)
CheckBlocked ==
    /\ pc = "checkBlocked"
    /\ blockChecks' = blockChecks + 1
    /\ \/ \E b \in BOOLEAN :
            /\ blockedImmediately' = JsBool(b)
            /\ IF BlockFatal(b, cookieArray)
               THEN ThrowLoginRequired
               ELSE /\ pc' = "waitForSelector"
                    /\ UNCHANGED <<outcome, result, closeCalls>>
       \/ /\ Throws
          /\ UNCHANGED blockedImmediately
    /\ UNCHANGED <<args, launched, loggedIn, maybeBlocked, loopVars, searchNavigated,
                   extractionRan, firstSeen, prevMeasured, stagnantRun, loopExit,
                   duplicateSeen>>
    /\ rejected' = "none"
    /\ UNCHANGED bystanders

\* lines 338-342: page.waitForSelector('article') inside try/catch: a timeout
\* is logged
WaitForSelector ==
    /\ pc = "waitForSelector"
    /\ rejected' \in {"none", "waitForSelector"}
    /\ pc' = "while"
    /\ UNCHANGED bystanders
    /\ UNCHANGED <<args, session, checks, loopVars, result, outcome, history>>

(* ------------------- scrapeTweetsForQuery: the loop ------------------- *)

\* line 349: while ((tweets.length < maxTweets) && scrollAttempts < MAX_SCROLL_ATTEMPTS)
LoopGuard(tw, n, attempts) == Len(tw) < n /\ attempts < MAX_SCROLL_ATTEMPTS

\* the first item of each permalink in a batch, for permalinks not seen before
FirstSeenAfter(seen, batch) ==
    [l \in Links |->
        IF seen[l] # NoItem THEN seen[l]
        ELSE LET at == {i \in 1..Len(batch) : batch[i].link = l}
             IN  IF at = {} THEN NoItem
                 ELSE batch[CHOOSE i \in at : \A j \in at : i <= j]]

\* the batch holds a permalink already discovered, in an earlier pass or
\* earlier in the batch, with a different timestamp
BringsDuplicate(seen, batch) ==
    \E i \in 1..Len(batch) :
        \/ seen[batch[i].link] # NoItem /\ seen[batch[i].link] # batch[i]
        \/ \E j \in 1..(i - 1) : batch[j].link = batch[i].link /\ batch[j] # batch[i]

\* line 349, the head of the loop
While ==
    /\ pc = "while"
    /\ IF LoopGuard(tweets, maxTweets, scrollAttempts)
       THEN /\ pc' = "extract"
            /\ UNCHANGED loopExit
       ELSE /\ pc' = "afterLoop"
            /\ loopExit' = IF Len(tweets) >= maxTweets THEN "count" ELSE "budget"
    /\ UNCHANGED <<args, session, checks, loopVars, result, outcome, searchNavigated,
                   blockChecks, extractionRan, firstSeen, prevMeasured, stagnantRun,
                   duplicateSeen>>
    /\ rejected' = "none"
    /\ UNCHANGED bystanders

\* a mutant of Extract: the break of line 358 is missing
ExtractNoBreak ==
    /\ pc = "extract"
    /\ extractionRan' = TRUE
    /\ \/ \E newTweets \in ExtractionResults :
            /\ tweets' = Merge(tweets, newTweets)
            /\ firstSeen' = FirstSeenAfter(firstSeen, newTweets)
            /\ duplicateSeen' = (duplicateSeen \/ BringsDuplicate(firstSeen, newTweets))
            /\ pc' = "measure"
            /\ UNCHANGED <<loopExit, outcome, result, closeCalls>>
       \/ /\ Throws
          /\ UNCHANGED <<tweets, firstSeen, loopExit, duplicateSeen>>
    /\ UNCHANGED <<args, launched, checks, scrollAttempts, lastHeight, searchNavigated,
                   blockChecks, prevMeasured, stagnantRun>>
    /\ rejected' = "none"
    /\ UNCHANGED bystanders

\* lines 350-358: const newTweets = await extractTweetsFromPage(page); the
\* merge; if (tweets.length >= maxTweets) break
Extract ==
    /\ pc = "extract"
    /\ extractionRan' = TRUE
    /\ \/ \E newTweets \in ExtractionResults :
            LET merged == Merge(tweets, newTweets)
            IN  /\ tweets' = merged
                /\ firstSeen' = FirstSeenAfter(firstSeen, newTweets)
                /\ duplicateSeen' = (duplicateSeen \/ BringsDuplicate(firstSeen, newTweets))
                /\ IF Len(merged) >= maxTweets
                   THEN /\ pc' = "afterLoop"
                        /\ loopExit' = "break"
                   ELSE /\ pc' = "measure"
                        /\ UNCHANGED loopExit
                /\ UNCHANGED <<outcome, result, closeCalls>>
       \/ /\ Throws
          /\ UNCHANGED <<tweets, firstSeen, loopExit, duplicateSeen>>
    /\ UNCHANGED <<args, launched, checks, scrollAttempts, lastHeight, searchNavigated,
                   blockChecks, prevMeasured, stagnantRun>>
    /\ rejected' = "none"
    /\ UNCHANGED bystanders

\* a mutant of NextScrollAttempts: the counter is never reset
NextScrollAttemptsNoReset(attempts, newHeight, last) == attempts + 1

\* a mutant of NextScrollAttempts: the two branches are swapped
NextScrollAttemptsSwapped(attempts, newHeight, last) ==
    IF newHeight = last THEN 0 ELSE attempts + 1

\* lines 361-366: the stagnation counter after a measurement
NextScrollAttempts(attempts, newHeight, last) ==
    IF newHeight = last THEN attempts + 1 ELSE 0

\* lines 360-366: const newHeight = await page.evaluate(
\* 'document.body.scrollHeight').catch(() => 0)
Measure ==
    /\ pc = "measure"
    /\ \E measuredOk \in BOOLEAN, h \in Heights :
         LET newHeight == IF measuredOk THEN h ELSE 0
         IN  /\ scrollAttempts' = NextScrollAttempts(scrollAttempts, newHeight, lastHeight)
             /\ lastHeight' = IF newHeight = lastHeight THEN lastHeight ELSE newHeight
             /\ stagnantRun' = IF newHeight = prevMeasured THEN stagnantRun + 1 ELSE 0
             /\ prevMeasured' = newHeight
    /\ pc' = "scroll"
    /\ UNCHANGED <<args, session, checks, tweets, result, outcome, searchNavigated,
                   blockChecks, extractionRan, firstSeen, loopExit, duplicateSeen>>
    /\ rejected' = "none"
    /\ UNCHANGED bystanders

\* line 368: page.evaluate(() => window.scrollBy(...)).catch(() => {})
Scroll ==
    /\ pc = "scroll"
    /\ pc' = "pause"
    /\ UNCHANGED <<args, session, checks, loopVars, result, outcome, history>>
    /\ rejected' = "none"
    /\ UNCHANGED bystanders

\* line 369: await new Promise(r => setTimeout(r, SCROLL_DELAY))
Pause ==
    /\ pc = "pause"
    /\ pc' = "while"
    /\ UNCHANGED <<args, session, checks, loopVars, result, outcome, history>>
    /\ rejected' = "none"
    /\ UNCHANGED bystanders

(* ----------------- scrapeTweetsForQuery: after the loop --------------- *)

\* a mutant of AfterLoop: the block check is re-run whatever was collected
AfterLoopAlwaysChecks ==
    /\ pc = "afterLoop"
    /\ pc' = "finalCheck"
    /\ UNCHANGED <<args, session, checks, loopVars, result, outcome, history>>
    /\ rejected' = "none"
    /\ UNCHANGED bystanders

\* line 373: if (tweets.length === 0)
AfterLoop ==
    /\ pc = "afterLoop"
    /\ pc' = IF Len(tweets) = 0 THEN "finalCheck" ELSE "postProcess"
    /\ UNCHANGED <<args, session, checks, loopVars, result, outcome, history>>
    /\ rejected' = "none"
    /\ UNCHANGED bystanders

\* lines 374-382: const maybeBlocked = await isBlockedOrLoginPage(page)
FinalCheck ==
    /\ pc = "finalCheck"
    /\ blockChecks' = blockChecks + 1
    /\ \/ \E b \in BOOLEAN :
            /\ maybeBlocked' = JsBool(b)
            /\ IF BlockFatal(b, cookieArray)
               THEN ThrowLoginRequired
               ELSE /\ pc' = "postProcess"
                    /\ UNCHANGED <<outcome, result, closeCalls>>
       \/ /\ Throws
          /\ UNCHANGED maybeBlocked
    /\ UNCHANGED <<args, launched, loggedIn, blockedImmediately, loopVars,
                   searchNavigated, extractionRan, firstSeen, prevMeasured,
                   stagnantRun, loopExit, duplicateSeen>>
    /\ rejected' = "none"
    /\ UNCHANGED bystanders

\* lines 386-401: the timestamps are normalized and the array sorted in
\* place, result = tweets.slice(0, maxTweets), browser.close(), return result
PostProcessAndReturn ==
    /\ pc = "postProcess"
    /\ tweets' = SortTweets(Normalize(tweets))
    /\ result' = PostProcess(tweets, maxTweets)
    /\ closeCalls' = closeCalls + 1
    /\ outcome' = "returned"
    /\ pc' = "done"
    /\ UNCHANGED <<args, launched, checks, scrollAttempts, lastHeight, history>>
    /\ rejected' = "none"
    /\ UNCHANGED bystanders

(* ------------------------------ POST /scrape -------------------------- *)

\* err.message of an error that is not the LOGIN_REQUIRED one
ErrorMessages == {"", "Protocol error", "login_required"}

\* lines 433-444: the response for the way the awaited run ended
ResponseNoLoginBranch(ended, message) ==
    IF ended = "returned"
    THEN [status |-> 200, ok |-> TRUE, error |-> ""]
    ELSE [status |-> 500, ok |-> FALSE,
          error |-> IF message = "" THEN "scrape_failed" ELSE message]

\* lines 433-444: res.json({ok: true, ...}) after the run returned; in the
\* catch, 403 'login_required' if err.code === 'LOGIN_REQUIRED', else 500
\* with err.message || 'scrape_failed'
Response(ended, message) ==
    IF ended = "returned"
    THEN [status |-> 200, ok |-> TRUE, error |-> ""]
    ELSE IF ended = "LOGIN_REQUIRED"
         THEN [status |-> 403, ok |-> FALSE, error |-> "login_required"]
         ELSE [status |-> 500, ok |-> FALSE,
               error |-> IF message = "" THEN "scrape_failed" ELSE message]

\* lines 422-445: the handler resumes after await scrapeTweetsForQuery(...);
\* writing output.json is best-effort (lines 425-431) and changes nothing
Respond ==
    /\ pc = "done"
    /\ response = NoResponse
    /\ \E message \in ErrorMessages : response' = Response(outcome, message)
    /\ rejected' = "none"
    /\ UNCHANGED <<pc, args, session, checks, loopVars, result, outcome, history,
                   debugFiles, elsewhere>>

Next ==
    \/ LaunchBrowser
    \/ PageSetup
    \/ SetCookie
    \/ GotoHome
    \/ WaitForTimeout
    \/ EvaluateLoggedIn
    \/ DebugFiles
    \/ LoginNotDetected
    \/ GotoSearch
    \/ CheckBlocked
    \/ WaitForSelector
    \/ While
    \/ Extract
    \/ Measure
    \/ Scroll
    \/ Pause
    \/ AfterLoop
    \/ FinalCheck
    \/ PostProcessAndReturn
    \/ Respond

Spec == Init /\ [][Next]_vars

\* every awaited operation of the run settles: the run keeps taking steps
FairSpec == Init /\ [][Next]_vars /\ WF_vars(Next)

(* ------------------------ like count of one article ------------------- *)

\* no run is under way; one article with any like control is at hand
LikesInit ==
    /\ RunStart("idle", [isNull |-> TRUE, length |-> 0], 1)
    /\ extraction = NoExtraction
    /\ concurrent = NoRequests
    /\ handler = NoHandler
    /\ \E likeBtn \in LikeControls :
         likeParse = [likeBtn |-> likeBtn, likes |-> Number(0), parsed |-> FALSE]

\* lines 205-211, for the article at hand
ParseLikes ==
    /\ ~likeParse.parsed
    /\ likeParse' = [likeParse EXCEPT !.likes = Likes(likeParse.likeBtn), !.parsed = TRUE]
    /\ UNCHANGED <<pc, args, session, checks, loopVars, result, outcome, history,
                   rejected, debugFiles, response, extraction, concurrent, handler>>

LikesNext == ParseLikes

LikesSpec == LikesInit /\ [][LikesNext]_vars

(* ------------------- one call of extractTweetsFromPage ---------------- *)

\* no run is under way; page.evaluate starts with out = [] (line 127)
ExtractorInit ==
    /\ RunStart("idle", [isNull |-> TRUE, length |-> 0], 1)
    /\ extraction = NoExtraction
    /\ likeParse = NoLikeParse
    /\ concurrent = NoRequests
    /\ handler = NoHandler

\* lines 129-232: forEach reaches the next article of the document
VisitArticle ==
    /\ ~extraction.returned
    /\ Len(extraction.document) < MaxArticles
    /\ \E article \in ArticleElements :
         extraction' = [extraction EXCEPT
                            !.document = Append(@, article),
                            !.out = ForEachArticle(@, article)]
    /\ UNCHANGED <<pc, args, session, checks, loopVars, result, outcome, history,
                   rejected, debugFiles, response, likeParse, concurrent, handler>>

\* line 233: return out, after the last article of the document
ReturnOut ==
    /\ ~extraction.returned
    /\ extraction' = [extraction EXCEPT !.returned = TRUE]
    /\ UNCHANGED <<pc, args, session, checks, loopVars, result, outcome, history,
                   rejected, debugFiles, response, likeParse, concurrent, handler>>

ExtractorNext == VisitArticle \/ ReturnOut

ExtractorSpec == ExtractorInit /\ [][ExtractorNext]_vars

(* ------------------------ two requests in flight ---------------------- *)
\* Two POST /scrape requests whose runs interleave at their awaits. Each run
\* has its own browser and page (launchBrowser is called per run), so what
\* its page answers is part of the request. A step is the code of one run
\* between two awaits at which its loop variables are read or written.

Runs == {1, 2}

ItemA == ItemOf([text |-> "hello", href |-> "/a/status/1", datetime |-> Null])
ItemB == ItemOf([text |-> "hello", href |-> "/b/status/2",
                 datetime |-> "1970-01-01T00:00:01Z"])

\* requests: maxTweets and the cookies loaded for the request, and the answers
\* of the request's page: the logged-in check, the block checks and, per loop
\* iteration, the extracted items and the scroll height (the last repeats)
ConcurrentRequests ==
    {[maxTweets |-> 2, cookieArray |-> [isNull |-> FALSE, length |-> 1],
      loggedIn |-> TRUE, blocked |-> FALSE,
      passes |-> <<[newTweets |-> <<ItemA>>, newHeight |-> 1],
                   [newTweets |-> <<ItemA, ItemB>>, newHeight |-> 1]>>],
     [maxTweets |-> 2, cookieArray |-> [isNull |-> FALSE, length |-> 1],
      loggedIn |-> TRUE, blocked |-> TRUE,
      passes |-> <<[newTweets |-> <<ItemB>>, newHeight |-> 1]>>],
     [maxTweets |-> 1, cookieArray |-> [isNull |-> TRUE, length |-> 0],
      loggedIn |-> TRUE, blocked |-> FALSE,
      passes |-> <<[newTweets |-> <<>>, newHeight |-> 0]>>],
     [maxTweets |-> 1, cookieArray |-> [isNull |-> TRUE, length |-> 0],
      loggedIn |-> FALSE, blocked |-> TRUE,
      passes |-> <<[newTweets |-> <<>>, newHeight |-> 0]>>]}

\* what the page of a request answers in iteration i of the loop
PassAt(req, i) == req.passes[IF i < Len(req.passes) THEN i ELSE Len(req.passes)]

\* lines 345-347: let tweets = []; let scrollAttempts = 0; let lastHeight = 0
Fresh == [tweets |-> <<>>, scrollAttempts |-> 0, lastHeight |-> 0]

\* a mutant of Slot: the three variables are declared once, at module level
SlotShared(r) == 1

\* where the loop variables of run r live: lines 345-347 declare them with
\* let inside scrapeTweetsForQuery, so every call has its own
Slot(r) == r

\* lines 372-401 up to the next await, for a run that left the loop with tw
AfterLoopOf(call, req, tw) ==
    IF Len(tw) = 0
    THEN [call EXCEPT !.pc = "finalCheck"]
    ELSE [call EXCEPT !.pc = "done", !.outcome = "returned",
                      !.result = PostProcess(tw, req.maxTweets)]

\* line 349 for a run whose loop variables are lv
WhileOf(call, req, lv) ==
    IF LoopGuard(lv.tweets, req.maxTweets, lv.scrollAttempts)
    THEN [call EXCEPT !.pc = "extract"]
    ELSE AfterLoopOf(call, req, lv.tweets)

\* history: a step of run r while the other run is inside its loop
Interleaves(r) ==
    \/ concurrent.interleaved
    \/ \E o \in Runs \ {r} : concurrent.calls[o].pc \in {"extract", "measure", "while"}

ConcurrentInit ==
    /\ RunStart("idle", [isNull |-> TRUE, length |-> 0], 1)
    /\ extraction = NoExtraction
    /\ likeParse = NoLikeParse
    /\ handler = NoHandler
    /\ \E q1, q2 \in ConcurrentRequests :
         concurrent =
            [requests |-> <<q1, q2>>,
             calls |-> [r \in Runs |-> [pc |-> "start", iteration |-> 0,
                                        outcome |-> "running", result |-> <<>>]],
             frames |-> [s \in Runs |-> Fresh],
             interleaved |-> FALSE]

\* lines 241-335 of run r: set-up, the logged-in check and the first block
\* check, as the page of the request answers them
RunChecks(r) ==
    LET req == concurrent.requests[r]
        call == concurrent.calls[r]
    IN  /\ call.pc = "start"
        /\ concurrent' =
             [concurrent EXCEPT
                !.calls[r] =
                    IF ~req.loggedIn \/ BlockFatal(req.blocked, req.cookieArray)
                    THEN [call EXCEPT !.pc = "done", !.outcome = "LOGIN_REQUIRED"]
                    ELSE [call EXCEPT !.pc = "enterLoop"],
                !.interleaved = Interleaves(r)]
        /\ UNCHANGED <<oneRun, extraction, likeParse, handler>>

\* lines 338-350 of run r: waitForSelector has settled; the loop variables
\* are initialised and the guard is evaluated for the first time
RunEnterLoop(r) ==
    LET req == concurrent.requests[r]
        call == concurrent.calls[r]
    IN  /\ call.pc = "enterLoop"
        /\ concurrent' =
             [concurrent EXCEPT
                !.frames[Slot(r)] = Fresh,
                !.calls[r] = WhileOf(call, req, Fresh),
                !.interleaved = Interleaves(r)]
        /\ UNCHANGED <<oneRun, extraction, likeParse, handler>>

\* lines 350-360 of run r: extractTweetsFromPage has resolved; merge, count
\* check, and on break the code after the loop
RunExtract(r) ==
    LET req == concurrent.requests[r]
        call == concurrent.calls[r]
        lv == concurrent.frames[Slot(r)]
        merged == Merge(lv.tweets, PassAt(req, call.iteration + 1).newTweets)
    IN  /\ call.pc = "extract"
        /\ concurrent' =
             [concurrent EXCEPT
                !.frames[Slot(r)] = [lv EXCEPT !.tweets = merged],
                !.calls[r] =
                    IF Len(merged) >= req.maxTweets
                    THEN AfterLoopOf(call, req, merged)
                    ELSE [call EXCEPT !.pc = "measure"],
                !.interleaved = Interleaves(r)]
        /\ UNCHANGED <<oneRun, extraction, likeParse, handler>>

\* lines 360-368 of run r: the height evaluation has resolved; the counter
\* and lastHeight are updated and the scroll is issued
RunMeasure(r) ==
    LET req == concurrent.requests[r]
        call == concurrent.calls[r]
        lv == concurrent.frames[Slot(r)]
        newHeight == PassAt(req, call.iteration + 1).newHeight
    IN  /\ call.pc = "measure"
        /\ concurrent' =
             [concurrent EXCEPT
                !.frames[Slot(r)] =
                    [lv EXCEPT
                        !.scrollAttempts =
                            NextScrollAttempts(lv.scrollAttempts, newHeight, lv.lastHeight),
                        !.lastHeight = newHeight],
                !.calls[r] = [call EXCEPT !.pc = "while", !.iteration = @ + 1],
                !.interleaved = Interleaves(r)]
        /\ UNCHANGED <<oneRun, extraction, likeParse, handler>>

\* lines 369, 349 of run r: the pause is over; the guard is evaluated
RunWhile(r) ==
    LET req == concurrent.requests[r]
        call == concurrent.calls[r]
    IN  /\ call.pc = "while"
        /\ concurrent' =
             [concurrent EXCEPT
                !.calls[r] = WhileOf(call, req, concurrent.frames[Slot(r)]),
                !.interleaved = Interleaves(r)]
        /\ UNCHANGED <<oneRun, extraction, likeParse, handler>>

\* lines 374-401 of run r: the final block check has resolved
RunFinalCheck(r) ==
    LET req == concurrent.requests[r]
        call == concurrent.calls[r]
    IN  /\ call.pc = "finalCheck"
        /\ concurrent' =
             [concurrent EXCEPT
                !.calls[r] =
                    IF BlockFatal(req.blocked, req.cookieArray)
                    THEN [call EXCEPT !.pc = "done", !.outcome = "LOGIN_REQUIRED"]
                    ELSE [call EXCEPT
                            !.pc = "done", !.outcome = "returned",
                            !.result = PostProcess(concurrent.frames[Slot(r)].tweets,
                                                   req.maxTweets)],
                !.interleaved = Interleaves(r)]
        /\ UNCHANGED <<oneRun, extraction, likeParse, handler>>

ConcurrentNext ==
    \E r \in Runs :
        \/ RunChecks(r)
        \/ RunEnterLoop(r)
        \/ RunExtract(r)
        \/ RunMeasure(r)
        \/ RunWhile(r)
        \/ RunFinalCheck(r)

ConcurrentSpec == ConcurrentInit /\ [][ConcurrentNext]_vars

RECURSIVE LoopAlone(_, _, _)
\* lines 345-370 run without interruption from iteration i on: the loop
\* variables when the loop is left
LoopAlone(req, lv, i) ==
    IF ~LoopGuard(lv.tweets, req.maxTweets, lv.scrollAttempts) THEN lv
    ELSE LET pass == PassAt(req, i)
             merged == Merge(lv.tweets, pass.newTweets)
         IN  IF Len(merged) >= req.maxTweets THEN [lv EXCEPT !.tweets = merged]
             ELSE LoopAlone(req,
                            [tweets |-> merged,
                             scrollAttempts |->
                                 NextScrollAttempts(lv.scrollAttempts, pass.newHeight,
                                                    lv.lastHeight),
                             lastHeight |-> pass.newHeight],
                            i + 1)

\* lines 240-402 for a request served alone: how the run ends
Alone(req) ==
    IF ~req.loggedIn \/ BlockFatal(req.blocked, req.cookieArray)
    THEN [outcome |-> "LOGIN_REQUIRED", result |-> <<>>]
    ELSE LET tw == LoopAlone(req, Fresh, 1).tweets
         IN  IF Len(tw) = 0 /\ BlockFatal(req.blocked, req.cookieArray)
             THEN [outcome |-> "LOGIN_REQUIRED", result |-> <<>>]
             ELSE [outcome |-> "returned", result |-> PostProcess(tw, req.maxTweets)]

(* ------------------- POST /scrape up to the call of the run ----------- *)
\* Strings of the body are sequences of characters.

\* filter and query: missing, a number, or a string of spaces and letters
BodyFilters == {Missing, Num(7)} \cup {Str(s) : s \in SeqsUpTo({" ", "x"}, MaxBodyLen)}
BodyQueries == {Missing, Str(<<"x">>)}

\* max_tweets_per_run: missing, an integer, or a string of digits and others
BodyCounts ==
    {Missing} \cup {Num(n) : n \in -1..MaxTweetsBound}
              \cup {Str(s) : s \in SeqsUpTo(LabelChars, MaxBodyLen)}

\* max_tweets, read only when max_tweets_per_run is falsy
BodyFallbackCounts == {Missing, Num(0), Num(MaxTweetsBound), Str(<<"L">>)}

\* the request bodies bodyParser.json hands to the handler
Bodies ==
    [filter : BodyFilters, query : BodyQueries, max_tweets_per_run : BodyCounts,
     max_tweets : BodyFallbackCounts]

\* ToBoolean of a body value: undefined, 0 and '' are falsy
Truthy(v) == (v.kind = "number" /\ v.n # 0) \/ (v.kind = "string" /\ v.s # <<>>)

\* a || b
Or(a, b) == IF Truthy(a) THEN a ELSE b

RECURSIVE TrimStart(_)
TrimStart(s) == IF s # <<>> /\ Head(s) = " " THEN TrimStart(Tail(s)) ELSE s

RECURSIVE TrimEnd(_)
TrimEnd(s) ==
    IF s # <<>> /\ s[Len(s)] = " " THEN TrimEnd(SubSeq(s, 1, Len(s) - 1)) ELSE s

\* String.prototype.trim on a sequence of characters
TrimChars(s) == TrimEnd(TrimStart(s))

\* parseInt(v, 10) of a body value: an integer prints as its digits, which
\* parseInt reads back; a string is read up to its first non-digit
ParseIntOf(v) == IF v.kind = "number" THEN Number(v.n) ELSE ParseInt(v.s)

\* Math.max(a, x) for an integer a: NaN if x is NaN
MathMax(a, x) == IF x.isNaN THEN NaN ELSE Number(IF x.value > a THEN x.value ELSE a)

\* line 413: Math.max(1, parseInt(body.max_tweets_per_run || body.max_tweets || 1, 10))
MaxTweetsOf(body) ==
    MathMax(1, ParseIntOf(Or(Or(body.max_tweets_per_run, body.max_tweets), Num(1))))

\* a request with any body arrives
HandlerInit ==
    /\ RunStart("idle", [isNull |-> TRUE, length |-> 0], 1)
    /\ extraction = NoExtraction
    /\ likeParse = NoLikeParse
    /\ concurrent = NoRequests
    /\ \E body \in Bodies : handler = [NoHandler EXCEPT !.body = body, !.stage = "received"]

\* lines 411-415: filter and maxTweets are computed; (body.filter ||
\* body.query || '').trim() throws a TypeError when the value is a number;
\* an empty filter is answered with 400
ReadBody ==
    LET body == handler.body
        chosen == Or(Or(body.filter, body.query), Str(<<>>))
    IN  /\ handler.stage = "received"
        /\ handler' =
             IF chosen.kind # "string"
             THEN [handler EXCEPT !.stage = "threw"]
             ELSE LET filter == TrimChars(chosen.s)
                  IN  [handler EXCEPT
                          !.filter = filter,
                          !.maxTweets = MaxTweetsOf(body),
                          !.status = IF filter = <<>> THEN 400 ELSE 0,
                          !.stage = IF filter = <<>> THEN "responded" ELSE "loadCookies"]
        /\ UNCHANGED <<oneRun, extraction, likeParse, concurrent>>

\* line 420: const cookieArray = loadCookiesFromEnvOrFile()
LoadCookies ==
    /\ handler.stage = "loadCookies"
    /\ handler' = [handler EXCEPT !.cookiesLoaded = TRUE, !.stage = "scrape"]
    /\ UNCHANGED <<oneRun, extraction, likeParse, concurrent>>

\* line 423: scrapeTweetsForQuery(filter, maxTweets, cookieArray) is called
CallScrape ==
    /\ handler.stage = "scrape"
    /\ handler' = [handler EXCEPT !.called = TRUE, !.handed = handler.maxTweets,
                                  !.stage = "awaiting"]
    /\ UNCHANGED <<oneRun, extraction, likeParse, concurrent>>

HandlerNext == ReadBody \/ LoadCookies \/ CallScrape

HandlerSpec == HandlerInit /\ [][HandlerNext]_vars

(* ------------------------------ properties ---------------------------- *)

HasCookies == ~NoCookies(cookieArray)

\* the fields the extractor gave an item (timestamp_iso is added by the run)
Extracted(t) == [text |-> t.text, link |-> t.link, timestamp |-> t.timestamp]

\* the permalinks discovered so far
Discovered == {l \in Links : firstSeen[l] # NoItem}

\* the while loop has been left by its guard or by its break
LeftLoop == loopExit # "none"

\* C1: once the browser was launched, every finished run, returned or thrown,
\* has called browser.close
C1_SessionTornDownOnEveryExit ==
    (pc = "done" /\ launched) => closeCalls >= 1

\* C2: a negative authentication check ends the run with LOGIN_REQUIRED, with
\* or without cookies, and the run never navigates to the search URL, never
\* checks for a block and never extracts
C2_NegativeAuthFailsLoginRequired ==
    loggedIn = "false" =>
        /\ pc \in {"debugFiles", "loginNotDetected", "done"}
        /\ pc = "done" => outcome = "LOGIN_REQUIRED"
        /\ ~searchNavigated
        /\ blockChecks = 0
        /\ ~extractionRan

C2_Witness ==
    /\ pc = "done"
    /\ loggedIn = "false"
    /\ HasCookies
    /\ outcome = "LOGIN_REQUIRED"

\* C3: a blocked search page right after the search navigation fails the run
\* with LOGIN_REQUIRED exactly when no cookies were supplied; with cookies the
\* run goes on into the loop and cannot end without an extraction pass
C3_BlockFatalOnlyWithoutCookies ==
    /\ (blockedImmediately = "true" /\ ~HasCookies) =>
            /\ pc = "done"
            /\ outcome = "LOGIN_REQUIRED"
            /\ ~extractionRan
    /\ (blockedImmediately = "true" /\ HasCookies) =>
            /\ pc \in {"afterLoop", "finalCheck", "postProcess", "done"} => extractionRan
            /\ blockChecks = 1 => outcome # "LOGIN_REQUIRED"
    /\ (outcome = "LOGIN_REQUIRED" /\ blockChecks = 1) =>
            (blockedImmediately = "true" /\ ~HasCookies)

C3_Witness ==
    /\ blockedImmediately = "true"
    /\ HasCookies
    /\ extractionRan
    /\ Len(tweets) >= 1

\* C4: in the running set after every iteration and in the result no two
\* items share a permalink, and the item held for a permalink is the first
\* one discovered, unaltered
C4_UniqueFirstOccurrenceWins ==
    /\ \A i, j \in 1..Len(tweets) : tweets[i].link = tweets[j].link => i = j
    /\ \A i \in 1..Len(tweets) : Extracted(tweets[i]) = firstSeen[tweets[i].link]
    /\ {tweets[i].link : i \in 1..Len(tweets)} = Discovered
    /\ \A i, j \in 1..Len(result) : result[i].link = result[j].link => i = j
    /\ \A i \in 1..Len(result) : Extracted(result[i]) = firstSeen[result[i].link]

C4_Witness ==
    /\ duplicateSeen
    /\ outcome = "returned"
    /\ Len(result) >= 2

\* C5: merging an extracted batch into the running set and merging the same
\* batch again gives the running set of the first merge, items and order
C5_MergeIdempotent ==
    pc = "extract" =>
        \A newTweets \in ExtractionResults :
            Merge(Merge(tweets, newTweets), newTweets) = Merge(tweets, newTweets)

C5_Witness ==
    /\ pc = "extract"
    /\ Len(tweets) >= 1
    /\ duplicateSeen

\* C6: whatever heights the page reports and whatever it yields, the loop is
\* left and the run ends
C6_LoopEventuallyExits == <>(pc = "done")

\* C7 as claimed: a loop stopped by the budget has seen exactly
\* MAX_SCROLL_ATTEMPTS consecutive stagnant measurements, and the run returns
\* every collected item normally
C7_BudgetStopReturnsNormally ==
    /\ loopExit = "budget" =>
            /\ scrollAttempts = MAX_SCROLL_ATTEMPTS
            /\ stagnantRun = MAX_SCROLL_ATTEMPTS
            /\ Len(tweets) < maxTweets
    /\ (pc = "done" /\ loopExit = "budget") =>
            /\ outcome = "returned"
            /\ {result[i].link : i \in 1..Len(result)} = Discovered

\* C7 amended: the same, the normal return being promised when at least one
\* item was collected
C7_BudgetStopReturnsCollected ==
    /\ loopExit = "budget" =>
            /\ scrollAttempts = MAX_SCROLL_ATTEMPTS
            /\ stagnantRun = MAX_SCROLL_ATTEMPTS
            /\ Len(tweets) < maxTweets
    /\ (pc = "done" /\ loopExit = "budget" /\ Discovered # {}) =>
            /\ outcome = "returned"
            /\ {result[i].link : i \in 1..Len(result)} = Discovered

C7_Witness ==
    /\ pc = "done"
    /\ loopExit = "budget"
    /\ outcome = "returned"
    /\ Len(result) = 1
    /\ maxTweets = 2
    /\ stagnantRun = MAX_SCROLL_ATTEMPTS

\* C8: the returned sequence is non-increasing by normalized timestamp, null
\* counting as earlier than every date: an item with a date is followed by
\* dates that are not later or by nulls, an item with null only by nulls
C8_ResultNewestFirstNullLast ==
    outcome = "returned" =>
        \A i, j \in 1..Len(result) :
            (i < j /\ result[j].timestamp_iso # Null) =>
                /\ result[i].timestamp_iso # Null
                /\ DateOf(result[i].timestamp_iso).ms >= DateOf(result[j].timestamp_iso).ms

\* C9: a returned result has min(maxTweets, collected) items, and they are the
\* first items of the sorted array: nothing left out sorts before a kept item
C9_TruncationAfterSort ==
    outcome = "returned" =>
        LET n == IF maxTweets < Cardinality(Discovered)
                 THEN maxTweets ELSE Cardinality(Discovered)
        IN  /\ Len(result) = n
            /\ \A i \in 1..n : result[i] = tweets[i]
            /\ \A i, j \in 1..Len(tweets) : i < j => Compare(tweets[i], tweets[j]) <= 0

C9_Witness ==
    /\ outcome = "returned"
    /\ Len(tweets) = 2
    /\ maxTweets = 1
    /\ Len(result) = 1
    /\ Compare(tweets[1], tweets[2]) < 0

\* C10: after the loop the block check is re-run exactly when nothing was
\* collected; a blocked page without cookies fails the run with
\* LOGIN_REQUIRED, and every other answer of the check, like every run that
\* collected something, returns normally
C10_FinalBlockCheck ==
    /\ maybeBlocked # Unset => (Discovered = {} /\ LeftLoop)
    /\ (LeftLoop /\ Discovered # {}) => blockChecks = 1
    /\ (LeftLoop /\ Discovered = {} /\ pc \in {"postProcess", "done"}) => blockChecks = 2
    /\ (maybeBlocked = "true" /\ ~HasCookies) =>
            (pc = "done" /\ outcome = "LOGIN_REQUIRED")
    /\ (pc = "done" /\ LeftLoop /\ (Discovered # {} \/ maybeBlocked = "false"
                                     \/ (maybeBlocked = "true" /\ HasCookies))) =>
            outcome = "returned"

C10_Witness ==
    /\ pc = "done"
    /\ LeftLoop
    /\ maybeBlocked = "true"
    /\ ~HasCookies
    /\ outcome = "LOGIN_REQUIRED"

\* C11: a rejection or timeout of the home navigation, of the search navigation
\* or of the wait for the first article does not end the run: the run is still
\* running and stands at the statement that follows (the pause before the
\* logged-in check, the block check, the loop), with the check still to come
C11_NavigationFailuresNonFatal ==
    /\ rejected # "none" => outcome = "running" /\ closeCalls = 0
    /\ rejected = "goto home" => pc = "waitForTimeout" /\ loggedIn = Unset
    /\ rejected = "goto search" => pc = "checkBlocked" /\ blockedImmediately = Unset
    /\ rejected = "waitForSelector" => pc = "while" /\ ~extractionRan

C11_Witness ==
    rejected = "goto search" /\ pc = "checkBlocked" /\ outcome = "running"

\* an article that has body text and a status link
HasTextAndLink(article) ==
    /\ article.tweetText \notin {Null, Undefined}
    /\ Trim(article.tweetText) # ""
    /\ article.href # Null

\* C12: every item the extractor emits has non-empty text and a non-empty
\* link, it emits no more items than the document has articles with both, and
\* so have the items merged from its output and the result cut from them
C12_EmittedHaveTextAndLink ==
    LET out == extraction.out
        merged == Merge(<<>>, out)
        complete(t) == t.text # "" /\ t.link # ""
    IN  /\ \A i \in 1..Len(out) : complete(out[i])
        /\ Len(out) <= Cardinality({i \in 1..Len(extraction.document) :
                                        HasTextAndLink(extraction.document[i])})
        /\ \A i \in 1..Len(merged) : complete(merged[i])
        /\ \A n \in 1..MaxTweetsBound :
               \A i \in 1..Len(PostProcess(merged, n)) : complete(PostProcess(merged, n)[i])

C12_Witness ==
    /\ extraction.returned
    /\ Len(extraction.document) = 2
    /\ extraction.document[1].tweetText = "  " /\ extraction.document[1].href # Null
    /\ extraction.document[2].tweetText = " hello " /\ extraction.document[2].href # Null
    /\ Len(extraction.out) = 1 /\ extraction.out[1].text = "hello"

\* C13: the response of the handler follows the way the run ended: 403 with
\* error 'login_required' exactly for a LOGIN_REQUIRED error, 500 for every
\* other error, and ok: true with status 200 only for a run that returned
C13_ResponseFollowsOutcome ==
    response # NoResponse =>
        /\ pc = "done"
        /\ outcome = "LOGIN_REQUIRED" =>
               response.status = 403 /\ response.error = "login_required" /\ ~response.ok
        /\ outcome = "Error" => response.status = 500 /\ ~response.ok
        /\ outcome = "returned" => response.status = 200 /\ response.ok

C13_Witness ==
    response.status = 403 /\ outcome = "LOGIN_REQUIRED" /\ loggedIn = "true"

\* C14: however the steps of two requests interleave, each run ends as it
\* would have ended alone against the same page: with the same outcome and
\* the same result, and until then with its own loop variables
C14_RunsDoNotInterfere ==
    \A r \in DOMAIN concurrent.calls :
        LET call == concurrent.calls[r]
            alone == Alone(concurrent.requests[r])
        IN  /\ call.pc = "done" =>
                call.outcome = alone.outcome /\ call.result = alone.result
            /\ call.pc \in {"measure", "while"} =>
                Len(concurrent.frames[r].tweets) < concurrent.requests[r].maxTweets

C14_Witness ==
    /\ concurrent.interleaved
    /\ \A r \in DOMAIN concurrent.calls : concurrent.calls[r].pc = "done"
    /\ Len(concurrent.calls[1].result) = 2
    /\ Len(concurrent.calls[2].result) = 1

\* C15: the like count of an article is a non-negative integer, whatever the
\* labels of its like control, and it is 0 when the article has no like
\* control or when the first run of digits and commas holds no number
C15_LikesNonNegativeInteger ==
    likeParse.parsed =>
        /\ ~likeParse.likes.isNaN
        /\ likeParse.likes.value >= 0
        /\ ~likeParse.likeBtn.present => likeParse.likes.value = 0

\* C16: an article whose processing throws is skipped and nothing else: the
\* articles before and after it that have text and link are all emitted, in
\* document order, and the call returns
C16_OnlyFailingArticleSkipped ==
    LET kept == SelectSeq(extraction.document, HasTextAndLink)
    IN  /\ Len(extraction.out) = Len(kept)
        /\ \A i \in 1..Len(kept) :
               /\ extraction.out[i].text = Trim(kept[i].tweetText)
               /\ extraction.out[i].link = Permalink(kept[i].href)
        /\ ~extraction.returned => ENABLED ReturnOut

C16_Witness ==
    /\ extraction.returned
    /\ Len(extraction.document) = 2
    /\ extraction.document[2].tweetText = Undefined
    /\ Len(extraction.out) = 1

\* C17: scrollAttempts is always the number of the latest consecutive
\* iterations whose measured height equalled the height of the iteration
\* before (0 before the first), lastHeight is the height measured last, and
\* the counter stays between 0 and MAX_SCROLL_ATTEMPTS
C17_StagnationCounter ==
    /\ scrollAttempts = stagnantRun
    /\ lastHeight = prevMeasured
    /\ 0 <= scrollAttempts /\ scrollAttempts <= MAX_SCROLL_ATTEMPTS

C17_Witness ==
    pc = "while" /\ lastHeight = 1 /\ scrollAttempts = 2 /\ stagnantRun = 2

\* C18: an iteration runs extraction and merge, then the count check on the
\* merged list, then the height measurement, the scroll and the pause, in
\* this order; when the merged list holds maxTweets items the loop is left at
\* once, so measurement, scroll and pause only ever run below maxTweets
C18_IterationOrder ==
    [][/\ pc = "while" => pc' \in {"extract", "afterLoop"}
       /\ pc = "extract" => pc' \in {"measure", "afterLoop", "done"}
       /\ (pc = "extract" /\ pc' = "measure") => Len(tweets') < maxTweets
       /\ (pc = "extract" /\ pc' = "afterLoop") =>
              Len(tweets') >= maxTweets /\ loopExit' = "break"
       /\ pc = "measure" => pc' = "scroll"
       /\ pc = "scroll" => pc' = "pause"
       /\ pc = "pause" => pc' = "while"
       /\ pc' \in {"measure", "scroll", "pause"} =>
              /\ pc \in {"extract", "measure", "scroll"}
              /\ Len(tweets') < maxTweets
              /\ loopExit' = "none"]_vars

C18_Witness ==
    pc = "afterLoop" /\ loopExit = "break" /\ stagnantRun >= 1 /\ Len(tweets) = 2

\* C19: when the logged-in check answers false, the screenshot and the HTML
\* snapshot are attempted before the run fails, and whichever of them fails,
\* the run still ends with LOGIN_REQUIRED and with no other error
C19_DiagnosticsAttemptedAndAbsorbed ==
    /\ (loggedIn = "false" /\ pc \in {"loginNotDetected", "done"}) => debugFiles # "none"
    /\ debugFiles # "none" =>
        /\ loggedIn = "false"
        /\ pc \in {"loginNotDetected", "done"}
        /\ pc = "loginNotDetected" => outcome = "running" /\ closeCalls = 0
        /\ pc = "done" => outcome = "LOGIN_REQUIRED"

C19_Witness ==
    pc = "done" /\ debugFiles = "screenshot failed" /\ outcome = "LOGIN_REQUIRED"

\* C20: browser.close is called at most once in a run, and once it has been
\* called the run has no statement left to execute: no navigation, evaluation,
\* extraction, block check, scroll or screenshot follows it
C20_CloseOnceAndLast ==
    /\ closeCalls <= 1
    /\ closeCalls = 1 => pc = "done" /\ outcome \in {"returned", "LOGIN_REQUIRED"}

C20_Witness ==
    closeCalls = 1 /\ pc = "done" /\ outcome = "LOGIN_REQUIRED" /\ blockChecks = 2

\* the string the handler takes as filter holds nothing but spaces
BlankFilter(body) ==
    LET chosen == Or(Or(body.filter, body.query), Str(<<>>))
    IN  chosen.kind = "string" /\ \A i \in 1..Len(chosen.s) : chosen.s[i] = " "

\* C21: the item count handed to scrapeTweetsForQuery is an integer of at
\* least 1 whatever the body gives for max_tweets_per_run and max_tweets, and
\* a request whose filter is empty or blank is answered with 400 before
\* cookies are loaded or the run is called
C21_HandlerArguments ==
    /\ handler.called => ~handler.handed.isNaN /\ handler.handed.value >= 1
    /\ (handler.stage \notin {"idle", "received"} /\ BlankFilter(handler.body)) =>
            /\ handler.stage = "responded"
            /\ handler.status = 400
            /\ ~handler.cookiesLoaded
            /\ ~handler.called

====
